---- MODULE Spec2Model ----
\* twixelbox-bot: the chat reader and the render timer feed one unbounded
\* mpsc channel; the main task replays the cube archive into the canvas and
\* then handles the channel's commands one at a time (src/src/main.rs), with
\* the sqlite cube archive of src/src/command_archive.rs behind it.
EXTENDS Integers, Sequences, FiniteSets, TLC

\* ---------------------------------------------------------------- bounds

\* Seconds of wall-clock time explored after the process starts.
MaxSeconds == 5
\* Commands ever sent on the channel (render ticks and cubes together).
MaxSent == 3
\* Server messages the chat reader receives.
MaxMessages == 2

\* ------------------------------------------------------------- constants

\* Canvas { frame_side_len: 500 }
frame_side_len == 500
\* let fps: f32 = 0.5, kept as the fraction FpsNum / FpsDen
FpsNum == 1
FpsDen == 2
\* Duration::as_millis drops the sub-millisecond part of an instant difference.
MicrosPerMilli == 1000
MillisPerSecond == 1000
\* r, g, b are u8; v[3] as u8 keeps the low eight bits.
U8Modulus == 256

\* Amounts by which the wall clock is seen to advance between two steps.
TimeSteps == {1000000}

\* cube_size values of the configuration file.
CubeSizes == {500}

\* -------------------------------------------------------- command parser

Digits == {"0", "1", "2", "3", "4", "5", "6", "7", "8", "9"}

DigitVal(c) ==
    CASE c = "0" -> 0 [] c = "1" -> 1 [] c = "2" -> 2 [] c = "3" -> 3
      [] c = "4" -> 4 [] c = "5" -> 5 [] c = "6" -> 6 [] c = "7" -> 7
      [] c = "8" -> 8 [] c = "9" -> 9

\* value.split(' '): the pieces between single spaces; two spaces in a row,
\* a leading or a trailing space give an empty piece.
RECURSIVE SplitFrom(_, _, _)
SplitFrom(s, i, cur) ==
    IF i > Len(s) THEN <<cur>>
    ELSE IF s[i] = " " THEN <<cur>> \o SplitFrom(s, i + 1, <<>>)
    ELSE SplitFrom(s, i + 1, Append(cur, s[i]))

\* A faulty split that takes runs of spaces as one separator and yields no
\* empty piece (split_whitespace).
SplitWhitespace(s) == SelectSeq(SplitFrom(s, 1, <<>>), LAMBDA tok : tok # <<>>)

Split(s) == SplitFrom(s, 1, <<>>)

RECURSIVE DigitsValue(_, _)
DigitsValue(ds, acc) ==
    IF ds = <<>> THEN acc ELSE DigitsValue(Tail(ds), acc * 10 + DigitVal(Head(ds)))

\* v.parse::<u32>(): an optional '+', then one or more decimal digits; an
\* empty piece, a '-' or any other character is an error.  The tokens of
\* Messages have at most three digits, far below u32::MAX.
ParseU32(tok) ==
    LET ds == IF tok # <<>> /\ Head(tok) = "+" THEN Tail(tok) ELSE tok
    IN  IF ds = <<>> \/ \E i \in 1..Len(ds) : ds[i] \notin Digits
        THEN [ok |-> FALSE, val |-> 0]
        ELSE [ok |-> TRUE, val |-> DigitsValue(ds, 0)]

\* collect::<Result<Vec<_>, _>>(): the first piece that fails to parse makes
\* the whole collection an error.
ParseAll(toks) ==
    IF \E i \in 1..Len(toks) : ~ParseU32(toks[i]).ok
    THEN [ok |-> FALSE, v |-> <<>>]
    ELSE [ok |-> TRUE, v |-> [i \in 1..Len(toks) |-> ParseU32(toks[i]).val]]

\* ChatCommand::from_str
from_str(value) ==
    LET r == ParseAll(Split(value))
    IN  IF ~r.ok THEN [ok |-> FALSE, err |-> "error parsing"]
        ELSE IF Len(r.v) # 6 THEN [ok |-> FALSE, err |-> "too many args"]
        ELSE IF r.v[4] > 255 \/ r.v[5] > 255 \/ r.v[6] > 255
             THEN [ok |-> FALSE, err |-> "invalid r g b"]
        ELSE [ok |-> TRUE,
              x |-> r.v[1], y |-> r.v[2], z |-> r.v[3],
              r |-> r.v[4] % U8Modulus, g |-> r.v[5] % U8Modulus,
              b |-> r.v[6] % U8Modulus]

\* v.parse::<i32>() of populate_from_csv: an optional '+' or '-', then one or
\* more decimal digits.  The tokens of Texts have at most three digits.
ParseI32(tok) ==
    LET signed == tok # <<>> /\ Head(tok) \in {"+", "-"}
        ds == IF signed THEN Tail(tok) ELSE tok
    IN  IF ds = <<>> \/ \E i \in 1..Len(ds) : ds[i] \notin Digits
        THEN [ok |-> FALSE, val |-> 0]
        ELSE [ok |-> TRUE,
              val |-> IF signed /\ Head(tok) = "-" THEN 0 - DigitsValue(ds, 0)
                      ELSE DigitsValue(ds, 0)]

\* collect::<Result<Vec<_>, _>>() over the i32 pieces.
ParseAllI32(toks) ==
    IF \E i \in 1..Len(toks) : ~ParseI32(toks[i]).ok
    THEN [ok |-> FALSE, v |-> <<>>]
    ELSE [ok |-> TRUE, v |-> [i \in 1..Len(toks) |-> ParseI32(toks[i]).val]]

\* ChatCommand::from_str of populate_from_csv: x, y, z are i32 and r, g, b
\* are cast with `as u8` after the `> 255` test alone.
from_str_csv(value) ==
    LET r == ParseAllI32(Split(value))
    IN  IF ~r.ok THEN [ok |-> FALSE, err |-> "error parsing"]
        ELSE IF Len(r.v) # 6 THEN [ok |-> FALSE, err |-> "too many args"]
        ELSE IF r.v[4] > 255 \/ r.v[5] > 255 \/ r.v[6] > 255
             THEN [ok |-> FALSE, err |-> "invalid r g b"]
        ELSE [ok |-> TRUE,
              x |-> r.v[1], y |-> r.v[2], z |-> r.v[3],
              r |-> r.v[4] % U8Modulus, g |-> r.v[5] % U8Modulus,
              b |-> r.v[6] % U8Modulus]

\* Texts of the chat messages the reader may receive.
Messages ==
    { <<"1", " ", "2", " ", "3", " ", "2", "5", "5", " ", "0", " ", "0">>,
      <<"1", " ", "2", " ", "3", " ", "0", " ", "0", " ", "2", "5", "5">>,
      <<"6", "0", "0", " ", "0", " ", "0", " ", "1", " ", "1", " ", "1">>,
      <<"1", " ", "2", " ", "3", " ", "2", "5", "6", " ", "0", " ", "0">>,
      <<"1", " ", "2", " ", "3">>,
      <<"1", " ", "2", " ", "x", " ", "0", " ", "0", " ", "0">> }

\* Texts handed to from_str where the text is recorded: chat messages and
\* lines of populate_from_csv's input file.
Texts ==
    {
      <<"1", " ", "2", " ", "3", " ", "2", "5", "5", " ", "0", " ", "0">>,
      <<"5", "0", "0", " ", "0", " ", "0", " ", "1", " ", "1", " ", "1">>,
      <<"1", " ", "2", " ", "3", " ", "2", "5", "6", " ", "0", " ", "0">>,
      <<"1", " ", "2", " ", "3">>,
      <<"1", " ", "2", " ", "x", " ", "0", " ", "0", " ", "0">>,
      <<"1", " ", "2", " ", "x">>,
      <<"1", " ", "2", " ", "3", " ", "4", " ", "5", " ", "6", " ", "7">>,
      <<"1", " ", " ", "2", " ", "3", " ", "4", " ", "5", " ", "6">>,
      <<"1", " ", "2", " ", "3", " ", "-", "1", " ", "0", " ", "0">>,
      <<"-", "4", "0", "0", " ", "0", " ", "0", " ", "1", " ", "1", " ", "1">>,
      <<>> }

\* ServerMessage: a Privmsg with its text, or any other kind of message.
ServerMessages ==
    [kind : {"Privmsg"}, message_text : Messages]
        \cup {[kind |-> "Other", message_text |-> <<>>]}

\* The server messages of the recorded texts.
TextMessages ==
    [kind : {"Privmsg"}, message_text : Texts]
        \cup {[kind |-> "Other", message_text |-> <<>>]}

\* ----------------------------------------------------------------- cubes

\* twixelbox_bot::Cube
Cube(x, y, z, r, g, b) == [position |-> <<x, y, z>>, colour |-> <<r, g, b>>]

\* A faulty bound test that lets a coordinate equal to cube_size through.
OutOfCubeAbove(c, size) == c.x > size \/ c.y > size \/ c.z > size

\* The any(|p| p >= &cube_size) test of the chat reader.
OutOfCube(c, size) == c.x >= size \/ c.y >= size \/ c.z >= size

\* ---------------------------------------------------------------- canvas

\* The translation the code gives a voxel along one axis,
\* ((frame_side_len - p) / (frame_side_len / 0.5)) - 0.25, as the numerator
\* of a fraction over 4 * frame_side_len: 0.25 is frame_side_len, -0.25 is
\* -frame_side_len.
Translation(side, p) == 2 * (side - p) - side

\* A canvas that keeps one voxel per place: a cube replaces the voxel already
\* at its coordinate.
CanvasAddCubeOverwrite(nodes, cube) ==
    LET t == <<Translation(frame_side_len, cube.position[1]),
               Translation(frame_side_len, cube.position[2]),
               Translation(frame_side_len, cube.position[3])>>
    IN  Append(SelectSeq(nodes, LAMBDA n : n.translation # t),
               [translation |-> t, color |-> cube.colour])

\* Canvas::add_cube: one more scene node in the window, whatever it holds.
CanvasAddCube(nodes, cube) ==
    Append(nodes,
           [translation |-> <<Translation(frame_side_len, cube.position[1]),
                              Translation(frame_side_len, cube.position[2]),
                              Translation(frame_side_len, cube.position[3])>>,
            color |-> cube.colour])

\* A faulty replay that adds nothing to the canvas.
LoadNothing(nodes, cubes) == nodes

\* for cube in cubes { canvas.add_cube(...) }
RECURSIVE LoadAll(_, _)
LoadAll(nodes, cubes) ==
    IF cubes = <<>> THEN nodes
    ELSE LoadAll(CanvasAddCube(nodes, Head(cubes)), Tail(cubes))

\* --------------------------------------------------------------- archive

\* The row INSERT INTO cubes (x, y, z, r, g, b) writes for a cube.
RowOf(cube) ==
    <<cube.position[1], cube.position[2], cube.position[3],
      cube.colour[1], cube.colour[2], cube.colour[3]>>

\* The Cube query_map builds from a row.
CubeOfRow(row) == Cube(row[1], row[2], row[3], row[4], row[5], row[6])

\* A faulty init that creates the table anew and loses its rows.
ArchiveInitAnew(rows) == <<>>

\* CubeArchive::init: open the file and `create table if not exists`; the
\* rows of an existing table stay, a new file gets an empty table.
ArchiveInit(rows) == rows

\* A faulty add_cube whose INSERT never reaches the table.
ArchiveAddCubeLost(rows, cube) == rows

\* CubeArchive::add_cube, once the connection is open: one row more.
ArchiveAddCube(rows, cube) == Append(rows, RowOf(cube))

\* CubeArchive::get_cubes, once the connection is open: every row, as a Cube.
ArchiveGetCubes(rows) == [i \in 1..Len(rows) |-> CubeOfRow(rows[i])]

\* Tables the archive file may hold when the process starts: written by
\* earlier runs of the bot and by populate_from_csv, which shifts its
\* coordinates by (300, 50, 100) and checks only that they are not negative.
StartupArchives ==
    { <<>>,
      << <<600, 50, 100, 7, 7, 7>>, <<1, 2, 3, 0, 0, 255>> >> }

\* ---------------------------------------------------------------- pacing

\* Duration::from_millis((1000.0 / fps) as u64), in milliseconds.
frame_time_millis == (1000 * FpsDen) \div FpsNum

\* The same Duration in the clock's microseconds.
frame_time == frame_time_millis * MicrosPerMilli

\* Duration::as_millis
AsMillis(d) == d \div MicrosPerMilli

\* A faulty deadline test that also skips the tick that is exactly on time.
SkipFrameInclusive(current_time, deadline) == current_time <= deadline

\* current_time < next_expected_frame: the tick is skipped.
SkipFrame(current_time, deadline) == current_time < deadline

\* render_time.as_millis() / frame_time.as_millis()
FramesLost(render_time) == AsMillis(render_time) \div AsMillis(frame_time)

\* last_attempted_frame.checked_add(frame_time.checked_mul(frames_lost as u32 + 1))
NextExpectedFrame(last_attempted_frame, lost) ==
    last_attempted_frame + frame_time * (lost + 1)

\* The same arithmetic at the width of the code.  A number too wide for a
\* 32-bit signed integer is a pair <<hi, lo>> that stands for hi * Limb + lo,
\* with lo below Limb; a u32 has hi below Limb as well.
Limb == 65536

\* u128 / u128 for a divisor d below Limb \div 2: long division, limb by limb.
WideDiv(n, d) == <<n[1] \div d, ((n[1] % d) * Limb + n[2]) \div d>>

\* n + 1 without a width.
WideSucc(n) == IF n[2] = Limb - 1 THEN <<n[1] + 1, 0>> ELSE <<n[1], n[2] + 1>>

\* `frames_lost as u32`: the cast keeps the low 32 bits.
AsU32(n) == <<n[1] % Limb, n[2]>>

\* u32::MAX
U32Max == <<Limb - 1, Limb - 1>>

\* `.. as u32 + 1`: on u32::MAX a build with overflow checks panics and a
\* build without them wraps to 0.
AddOneU32(n, build) ==
    IF n = U32Max
    THEN [panic |-> build = "debug", val |-> <<0, 0>>]
    ELSE [panic |-> FALSE, val |-> WideSucc(n)]

\* render_time.as_millis() of renders up to a little over 2^32 frame times.
WideRenderMillis ==
    {<<hi, lo>> : hi \in {0, 1, 2000, 131071999, 131072000},
                  lo \in {0, 1, 1999, 2000, 4000, 10000, 30000, 63535, 63536,
                          65535}}

\* ----------------------------------------------------------------- state

VARIABLES
    cube_size,           \* config.twixelbox.cube_size
    now,                 \* the wall clock, the value Instant::now() returns
    chan,                \* every Command sent on the channel, in send order
    received,            \* how many of them rx.recv() has handed to the loop
    pacer_wake,          \* when the render timer's sleep is over
    delivered,           \* server messages the chat reader has received
    loop,                \* the main task: "start", "recv" or "rendering"
    fatal,               \* the unwrap/expect that ended the process, or "none"
    connection,          \* archive.connection is Some
    archive,             \* the rows of the cubes table
    archive0,            \* the rows the table held when the process started
    canvas,              \* the scene nodes Canvas::add_cube has added
    next_expected_frame, \* the deadline of the next render
    frames_lost,         \* frames_lost of the latest pacing computation
    v,                   \* what the latest window.snap captured
    render_tick,         \* the position in chan of the tick that rendered it
    attempt_time,        \* current_time of the latest render attempt
    attempt_done,        \* when the latest render attempt ended
    outcome,             \* how it ended; "pending" while it runs
    renders,             \* render attempts started
    skipped,             \* ticks skipped
    append_failed,       \* archive.add_cube has returned an error
    cubes,               \* what get_cubes returned at startup
    added,               \* the cubes add_cube has stored, in order
    reader,              \* the chat reader task: "running" or "ended"
    text,                \* the text from_str was last called on, where recorded
    populate,            \* populate_from_csv: "running" or "panicked"
    wide                 \* the latest full-width pacing computation

vars ==
    <<cube_size, now, chan, received, pacer_wake, delivered, loop,
      fatal, connection, archive, archive0, canvas, next_expected_frame,
      frames_lost, v, render_tick, attempt_time, attempt_done, outcome,
      renders, skipped, append_failed, cubes, added, reader, text, populate,
      wide>>

\* What only the specifications of one part of the program write: the chat
\* stream's end, the text parsed, populate_from_csv's run, the pacing
\* arithmetic at full width.
auxVars == <<reader, text, populate, wide>>

producerVars == <<chan, pacer_wake, delivered>>
renderVars ==
    <<next_expected_frame, frames_lost, v, render_tick, attempt_time,
      attempt_done, outcome, renders, skipped>>
archiveVars == <<connection, archive, append_failed>>

\* Command::Render and Command::AddCube(cube)
Render == [kind |-> "Render"]
AddCube(cube) == [kind |-> "AddCube", cube |-> cube]

\* tx.send(..).unwrap() on the unbounded channel: the command goes last.
Send(q, command) == Append(q, command)

\* A faulty channel that hands out the newest command instead of the oldest.
RecvNewest(q, n) == Len(q)

\* rx.recv(): the position in chan of the command handed out next, the
\* oldest one not yet received.
RecvIndex(q, n) == n + 1

\* A faulty error path that logs the error and goes on.
ExpectSwallowed(result, site) == "none"

\* .unwrap() / .expect(..) on a result: an error ends the process at `site`.
Expect(result, site) == IF result = "Err" THEN site ELSE "none"

\* The process runs until one of its unwrap/expect calls panics in main.
Alive == fatal = "none"

Init ==
    /\ cube_size \in CubeSizes
    /\ archive0 \in StartupArchives
    /\ archive = archive0
    /\ now = 0
    /\ chan = <<>>
    /\ received = 0
    /\ pacer_wake = 0
    /\ delivered = 0
    /\ loop = "start"
    /\ fatal = "none"
    /\ connection = FALSE
    /\ canvas = <<>>
    /\ next_expected_frame = 0
    /\ frames_lost = 0
    /\ v = <<>>
    /\ render_tick = 0
    /\ attempt_time = 0
    /\ attempt_done = 0
    /\ outcome = "none"
    /\ renders = 0
    /\ skipped = 0
    /\ append_failed = FALSE
    /\ cubes = <<>>
    /\ added = <<>>
    /\ reader = "running"
    /\ text = <<>>
    /\ populate = "running"
    /\ wide = [done |-> FALSE]

\* The render timer has a tick to send: its sleep is over.
PacerDue == now >= pacer_wake /\ Len(chan) < MaxSent

\* Time passes.  The timer wakes within the clock step in which its sleep
\* ends, so the clock does not move on while a tick is due; how long the
\* tick then waits in the channel is up to the main task.
Advance ==
    /\ Alive
    /\ ~PacerDue
    /\ \E dt \in TimeSteps :
         /\ now + dt <= MaxSeconds * MillisPerSecond * MicrosPerMilli
         /\ now' = now + dt
    /\ UNCHANGED <<cube_size, auxVars, cubes, added, producerVars, loop, fatal, archiveVars, archive0,
                   canvas, received, renderVars>>

\* A faulty timer task that ends with the chat reader: it sends its tick
\* only while the reader runs.
PacerSendWhileChat ==
    /\ Alive
    /\ reader = "running"
    /\ PacerDue
    /\ chan' = Send(chan, Render)
    /\ pacer_wake' = now + frame_time
    /\ UNCHANGED <<cube_size, auxVars, cubes, added, now, delivered, loop,
                   fatal, archiveVars, archive0, canvas, received, renderVars>>

\* The render timer task: send Render, then sleep one frame time.
PacerSend ==
    /\ Alive
    /\ PacerDue
    /\ chan' = Send(chan, Render)
    /\ pacer_wake' = now + frame_time
    /\ UNCHANGED <<cube_size, auxVars, cubes, added, now, delivered, loop, fatal, archiveVars,
                   archive0, canvas, received, renderVars>>

\* The chat reader task handles one server message: anything but a Privmsg
\* that parses and lies inside cube_size is dropped, the rest is sent on.
ReaderHandles(message) ==
    /\ Alive
    /\ reader = "running"
    /\ delivered < MaxMessages
    /\ LET chat_command == from_str(message.message_text)
           accepted == /\ message.kind = "Privmsg"
                       /\ chat_command.ok
                       /\ ~OutOfCube(chat_command, cube_size)
       IN  IF accepted
           THEN /\ Len(chan) < MaxSent
                /\ chan' = Send(chan,
                                AddCube(Cube(chat_command.x, chat_command.y,
                                             chat_command.z, chat_command.r,
                                             chat_command.g, chat_command.b)))
           ELSE chan' = chan
    /\ delivered' = delivered + 1
    /\ UNCHANGED <<cube_size, reader, populate, wide, cubes, added, now,
                   pacer_wake, loop,
                   fatal, archiveVars, archive0, canvas, received, renderVars>>

\* The chat reader task receives one server message.
ReaderRecv ==
    \E message \in ServerMessages :
        ReaderHandles(message) /\ UNCHANGED text

\* main, before the loop: open the archive, add every archived cube to the
\* canvas, take the first deadline from the clock.
LoadCubes ==
    /\ Alive
    /\ loop = "start"
    /\ \E result \in {"Ok", "Err"} :
         /\ fatal' = Expect(result, "get_cubes")
         /\ IF result = "Ok"
            THEN /\ connection' = TRUE
                 /\ archive' = IF connection THEN archive
                               ELSE ArchiveInit(archive)
                 /\ cubes' = ArchiveGetCubes(archive')
                 /\ canvas' = LoadAll(canvas, cubes')
                 /\ next_expected_frame' = now
                 /\ loop' = "recv"
            ELSE /\ connection' \in BOOLEAN
                 /\ UNCHANGED <<archive, cubes, canvas, next_expected_frame,
                                loop>>
    /\ UNCHANGED <<cube_size, auxVars, added, now, producerVars, append_failed,
                   archive0, received, frames_lost, v, render_tick,
                   attempt_time, attempt_done, outcome, renders, skipped>>

\* Command::Render received before the deadline: the frame is skipped.
TickSkip ==
    /\ Alive
    /\ loop = "recv"
    /\ received < Len(chan)
    /\ chan[RecvIndex(chan, received)].kind = "Render"
    /\ SkipFrame(now, next_expected_frame)
    /\ received' = received + 1
    /\ skipped' = skipped + 1
    /\ UNCHANGED <<cube_size, auxVars, cubes, added, now, producerVars, loop, fatal, archiveVars,
                   archive0, canvas, next_expected_frame, frames_lost, v,
                   render_tick, attempt_time, attempt_done, outcome, renders>>

\* Command::Render received at or after the deadline: window.render() and
\* window.snap(&mut v) capture the scene as it is now.
TickRender ==
    /\ Alive
    /\ loop = "recv"
    /\ received < Len(chan)
    /\ chan[RecvIndex(chan, received)].kind = "Render"
    /\ ~SkipFrame(now, next_expected_frame)
    /\ received' = received + 1
    /\ render_tick' = RecvIndex(chan, received)
    /\ attempt_time' = now
    /\ v' = canvas
    /\ outcome' = "pending"
    /\ renders' = renders + 1
    /\ loop' = "rendering"
    /\ UNCHANGED <<cube_size, auxVars, cubes, added, now, producerVars, fatal, archiveVars, archive0,
                   canvas, next_expected_frame, frames_lost, attempt_done,
                   skipped>>

\* The rest of the Render arm, some time later: the image is built, saved
\* and renamed into place, and the deadline is computed again; a save error
\* leaves the arm with continue, a tempdir or rename error panics.
RenderDone ==
    /\ Alive
    /\ loop = "rendering"
    /\ attempt_done' = now
    /\ \E result \in {"ok", "from_raw_none", "save_err", "tempdir_err", "rename_err"} :
         /\ outcome' = result
         /\ fatal' = IF result = "tempdir_err" THEN Expect("Err", "tempdir")
                     ELSE IF result = "rename_err" THEN Expect("Err", "rename")
                     ELSE "none"
         /\ IF result \in {"ok", "from_raw_none"}
            THEN LET last_attempted_frame == attempt_time
                     render_time == now - last_attempted_frame
                 IN  /\ frames_lost' = FramesLost(render_time)
                     /\ next_expected_frame' =
                            NextExpectedFrame(last_attempted_frame,
                                              FramesLost(render_time))
            ELSE UNCHANGED <<frames_lost, next_expected_frame>>
         /\ loop' = IF result \in {"tempdir_err", "rename_err"} THEN loop ELSE "recv"
    /\ UNCHANGED <<cube_size, auxVars, cubes, added, now, producerVars, archiveVars, archive0, canvas,
                   received, v, render_tick, attempt_time, renders, skipped>>

\* Command::AddCube(cube) received: the cube goes on the canvas, then into
\* the archive; an archive error panics.
HandleAddCube ==
    /\ Alive
    /\ loop = "recv"
    /\ received < Len(chan)
    /\ chan[RecvIndex(chan, received)].kind = "AddCube"
    /\ LET cube == chan[RecvIndex(chan, received)].cube
       IN  /\ canvas' = CanvasAddCube(canvas, cube)
           /\ \E result \in {"Ok", "Err"} :
                /\ archive' =
                       IF result = "Ok"
                       THEN ArchiveAddCube(IF connection THEN archive
                                           ELSE ArchiveInit(archive), cube)
                       ELSE archive
                /\ connection' \in IF result = "Ok" THEN {TRUE}
                                   ELSE {connection, TRUE}
                /\ added' = IF result = "Ok" THEN Append(added, cube)
                            ELSE added
                /\ append_failed' = (result = "Err")
                /\ fatal' = Expect(result, "add_cube")
    /\ received' = received + 1
    /\ UNCHANGED <<cube_size, auxVars, cubes, now, producerVars, loop, archive0,
                   renderVars>>

\* The main task's steps.
EventLoop == TickSkip \/ TickRender \/ RenderDone \/ HandleAddCube

Next ==
    \/ Advance
    \/ PacerSend
    \/ ReaderRecv
    \/ LoadCubes
    \/ EventLoop

Spec == Init /\ [][Next]_vars

\* ------------------------------------------------- the text-handling paths

\* The chat reader task receives one server message; its text is recorded.
ReaderRecvText ==
    \E message \in TextMessages :
        ReaderHandles(message) /\ text' = message.message_text

\* populate_from_csv, one line of its input file: a line that does not parse
\* is skipped; the coordinates are shifted by (300, 50, 100) and a line with
\* a negative one is skipped; the cube is added through a new CubeArchive on
\* the bot's archive file, and an error of add_cube panics.
CsvLine ==
    /\ populate = "running"
    /\ Len(added) < MaxMessages
    /\ \E twixel_msg \in Texts :
         /\ text' = twixel_msg
         /\ LET parsed == from_str_csv(twixel_msg)
                x == parsed.x + 300
                y == parsed.y + 50
                z == parsed.z + 100
            IN  IF ~parsed.ok \/ x < 0 \/ y < 0 \/ z < 0
                THEN UNCHANGED <<archive, added, populate>>
                ELSE \E result \in {"Ok", "Err"} :
                       LET cube == Cube(x, y, z, parsed.r, parsed.g, parsed.b)
                       IN  /\ archive' =
                                  IF result = "Ok"
                                  THEN ArchiveAddCube(ArchiveInit(archive), cube)
                                  ELSE archive
                           /\ added' = IF result = "Ok" THEN Append(added, cube)
                                       ELSE added
                           /\ populate' = IF result = "Ok" THEN populate
                                          ELSE "panicked"
    /\ UNCHANGED <<cube_size, reader, wide, cubes, now, producerVars, loop,
                   fatal, connection, append_failed, archive0, canvas,
                   received, renderVars>>

\* The bot without its clock and timer, fed recorded texts, next to
\* populate_from_csv writing the same archive file.
InputNext ==
    \/ ReaderRecvText
    \/ CsvLine
    \/ LoadCubes
    \/ HandleAddCube

InputSpec == Init /\ [][InputNext]_vars

\* ------------------------------------------- the pacing block, full width

\* The end of the Render arm for a render of any length: frames_lost, the
\* cast to u32, the + 1, and the two checked operations, which cannot fail
\* for a frame time of 2 s (2 s * u32::MAX fits a Duration, and the sum an
\* Instant), so that the deadline is last_attempted_frame + frame_time *
\* factor whenever the + 1 does not panic.
PaceWide ==
    /\ Alive
    /\ \E render_millis \in WideRenderMillis, build \in {"debug", "release"} :
         LET lost == WideDiv(render_millis, AsMillis(frame_time))
             plus_one == AddOneU32(AsU32(lost), build)
         IN  /\ wide' = [done |-> TRUE,
                         build |-> build,
                         render_millis |-> render_millis,
                         frames_lost |-> lost,
                         factor |-> plus_one.val,
                         panicked |-> plus_one.panic]
             /\ fatal' = Expect(IF plus_one.panic THEN "Err" ELSE "Ok",
                                "frames_lost + 1")
    /\ UNCHANGED <<cube_size, reader, text, populate, cubes, added, now,
                   producerVars, loop, archiveVars, archive0, canvas,
                   received, renderVars>>

PacingNext == PaceWide

PacingSpec == Init /\ [][PacingNext]_vars

\* -------------------------------------------------- the bot, run for ever

\* An instant that lies dt less far ahead once dt has passed, or is reached.
Ahead(t, dt) == IF t > dt THEN t - dt ELSE 0

\* Time passes, for ever: instants are kept as distances from the present,
\* now stays 0, and an instant that is reached counts as the present.  The
\* timer wakes within the clock step in which its sleep ends, and a render
\* ends within MaxSeconds.
LiveAdvance ==
    /\ Alive
    /\ ~PacerDue
    /\ \E dt \in TimeSteps :
         /\ loop = "rendering" =>
                now - attempt_time + dt <= MaxSeconds * MillisPerSecond * MicrosPerMilli
         /\ pacer_wake' = Ahead(pacer_wake, dt)
         /\ next_expected_frame' = Ahead(next_expected_frame, dt)
         /\ attempt_time' = IF loop = "rendering" THEN attempt_time - dt
                            ELSE attempt_time
    /\ UNCHANGED <<cube_size, auxVars, cubes, added, now, chan, delivered,
                   loop, fatal, archiveVars, archive0, canvas, received,
                   frames_lost, v, render_tick, attempt_done, outcome,
                   renders, skipped>>

\* The chat stream closes: incoming_messages.recv() yields None and the
\* reader task ends, dropping its sender; the timer task keeps its own.
ReaderEnd ==
    /\ Alive
    /\ reader = "running"
    /\ reader' = "ended"
    /\ UNCHANGED <<cube_size, text, populate, wide, cubes, added, now,
                   producerVars, loop, fatal, archiveVars, archive0, canvas,
                   received, renderVars>>

\* Something of the past is still on record: a command rx.recv() has handed
\* out, or an attempt that is over.
Past ==
    \/ received > 0
    \/ loop # "rendering"
          /\ (outcome # "none" \/ attempt_time # 0 \/ frames_lost # 0)

\* The past is dropped: the commands handed out leave the channel, the
\* counts of attempts and skips start again, and the record of an attempt
\* that is over is cleared.  No step of the program reads any of it.
Forget ==
    /\ Past
    /\ chan' = SubSeq(chan, received + 1, Len(chan))
    /\ received' = 0
    /\ render_tick' = 0
    /\ renders' = 0
    /\ skipped' = 0
    /\ IF loop = "rendering"
       THEN UNCHANGED <<outcome, attempt_time, frames_lost>>
       ELSE outcome' = "none" /\ attempt_time' = 0 /\ frames_lost' = 0
    /\ UNCHANGED <<cube_size, auxVars, cubes, added, now, pacer_wake,
                   delivered, loop, fatal, archiveVars, archive0, canvas,
                   next_expected_frame, v, attempt_done>>

\* The bot's steps, each taken with the past dropped.
LiveNext ==
    \/ Forget
    \/ ~Past /\ LiveAdvance
    \/ ~Past /\ PacerSend
    \/ ~Past /\ ReaderRecv
    \/ ~Past /\ ReaderEnd
    \/ ~Past /\ LoadCubes
    \/ ~Past /\ EventLoop

\* The runtime runs every task that can run, renders end, time passes; the
\* chat may stay silent for ever.
LiveSpec ==
    /\ Init
    /\ [][LiveNext]_vars
    /\ WF_vars(Forget)
    /\ WF_vars(~Past /\ LiveAdvance)
    /\ WF_vars(~Past /\ PacerSend)
    /\ WF_vars(~Past /\ LoadCubes)
    /\ WF_vars(~Past /\ EventLoop)

\* ------------------------------------------------------------ properties

\* The cubes of the AddCube commands of a stretch of the channel, in order.
CubesOf(commands) ==
    LET adds == SelectSeq(commands, LAMBDA c : c.kind = "AddCube")
    IN  [i \in 1..Len(adds) |-> adds[i].cube]

\* The canvas the startup replay builds from the rows found at startup.
Replayed == LoadAll(<<>>, ArchiveGetCubes(archive0))

\* A render attempt has started and ended, in whatever way.
AttemptOver == outcome \notin {"none", "pending"}

\* How long the latest render attempt took.
AttemptDuration == attempt_done - attempt_time

\* The step hands a Render command to the loop.
TickReceived ==
    /\ loop = "recv"
    /\ received' = received + 1
    /\ chan[RecvIndex(chan, received)].kind = "Render"

\* C1: what a render captures is the replayed canvas plus exactly the cubes
\* of the AddCube commands sent before the tick that triggered the render,
\* in send order: none of them missing, none sent after the tick included.
C1_RenderSeesCommandsBeforeTick ==
    renders > 0 =>
        v = LoadAll(Replayed, CubesOf(SubSeq(chan, 1, render_tick - 1)))

\* A render was triggered by a tick with a cube command sent before it and
\* another one sent after it.
C1_Witness ==
    /\ renders > 0
    /\ \E i \in 1..(render_tick - 1) : chan[i].kind = "AddCube"
    /\ \E j \in (render_tick + 1)..Len(chan) : chan[j].kind = "AddCube"

\* C2: the commands received so far are on the canvas once each, in send
\* order, after the replayed cubes; the archive holds the startup rows and
\* after them one row for each of these commands, in send order (all but the
\* last one when its insert failed); and a step never changes or removes a
\* row, it at most adds one at the end.
C2_EachCommandOnceInOrder ==
    /\ [](LET handled == CubesOf(SubSeq(chan, 1, received))
              stored == IF append_failed THEN SubSeq(handled, 1, Len(handled) - 1)
                        ELSE handled
          IN  /\ canvas = LoadAll(IF loop = "start" THEN <<>> ELSE Replayed, handled)
              /\ archive = archive0 \o [i \in 1..Len(stored) |-> RowOf(stored[i])])
    /\ [][/\ Len(archive') \in {Len(archive), Len(archive) + 1}
          /\ SubSeq(archive', 1, Len(archive)) = archive]_vars

\* Two cube commands have been handled on top of a non-empty startup archive.
C2_Witness ==
    /\ archive0 # <<>>
    /\ Len(CubesOf(SubSeq(chan, 1, received))) = 2
    /\ Len(archive) = Len(archive0) + 2
    /\ chan[1].cube # chan[2].cube

\* C3: a render attempt that failed (no image from the pixels, save error,
\* rename error) leaves the loop running and the deadline recomputed from
\* the attempt's start and duration, as after a successful render.
C3_FailedRenderGoesOn ==
    outcome \in {"from_raw_none", "save_err", "rename_err"} =>
        /\ fatal \notin {"tempdir", "rename"}
        /\ loop = "recv"
        /\ next_expected_frame =
               NextExpectedFrame(attempt_time, FramesLost(AttemptDuration))

\* C4: once an archive insert has failed the process has ended with that
\* error, and the main task takes no further step.
C4_ArchiveFailureIsFatal ==
    append_failed => /\ fatal = "add_cube"
                     /\ ~ENABLED EventLoop

\* An insert failed while a later command was already waiting in the channel.
C4_Witness ==
    /\ append_failed
    /\ received < Len(chan)

\* C5: after every render attempt, started at T and d long, frames_lost is
\* floor(d / f) and the deadline is T + f * (frames_lost + 1).
C5_PacingAfterEveryAttempt ==
    AttemptOver =>
        /\ frames_lost = AttemptDuration \div frame_time
        /\ next_expected_frame =
               attempt_time + frame_time * ((AttemptDuration \div frame_time) + 1)

\* C6: after a render attempt that took 2.5 frame times, frames_lost is 2 and
\* the deadline is three frame times after its start; and a tick received
\* before that instant starts no render.
C6_NoCatchUp ==
    /\ []((AttemptOver /\ 2 * AttemptDuration = 5 * frame_time) =>
              /\ frames_lost = 2
              /\ next_expected_frame = attempt_time + 3 * frame_time)
    /\ [][(/\ TickReceived
           /\ AttemptOver
           /\ 2 * AttemptDuration = 5 * frame_time
           /\ now < attempt_time + 3 * frame_time) => renders' = renders]_vars

\* C7: a tick received before the deadline starts no render and leaves the
\* deadline, the canvas and the archive as they are; a tick received at the
\* deadline or later starts a render attempt at that instant.
C7_TickBeforeDeadlineSkipped ==
    [][TickReceived =>
          IF now < next_expected_frame
          THEN /\ renders' = renders
               /\ loop' = "recv"
               /\ UNCHANGED <<next_expected_frame, canvas, archive>>
          ELSE /\ renders' = renders + 1
               /\ loop' = "rendering"
               /\ attempt_time' = now]_vars

\* A tick has been skipped, and a later tick, received exactly at the
\* deadline an earlier render set, has started a render.
C7_Witness ==
    /\ skipped >= 1
    /\ renders >= 2
    /\ loop = "rendering"
    /\ attempt_time = next_expected_frame

\* C8: every voxel on the canvas has x, y and z below frame_side_len, that
\* is, a translation above the one of coordinate frame_side_len.
C8_CubesInsideBound ==
    \A i \in 1..Len(canvas) : \A k \in 1..3 :
        canvas[i].translation[k] > Translation(frame_side_len, frame_side_len)

\* C9: the canvas holds one entry for a coordinate, that of the command
\* applied last: no two of its voxels are at the same place.
C9_OneEntryPerCoordinate ==
    \A i, j \in 1..Len(canvas) :
        canvas[i].translation = canvas[j].translation => i = j

\* C10: replaying the archived cubes into the canvas the replay has built
\* leaves that canvas as it is.
C10_ReplayIdempotent ==
    (loop = "recv" /\ received = 0) =>
        LoadAll(canvas, ArchiveGetCubes(archive0)) = canvas

\* The scene nodes begin with the rows found at startup, row by row.
ArchivedOn(nodes) ==
    /\ Len(nodes) >= Len(archive0)
    /\ \A i \in 1..Len(archive0) :
         /\ nodes[i].translation =
                <<Translation(frame_side_len, archive0[i][1]),
                  Translation(frame_side_len, archive0[i][2]),
                  Translation(frame_side_len, archive0[i][3])>>
         /\ nodes[i].color = <<archive0[i][4], archive0[i][5], archive0[i][6]>>

\* C11: every cube found in the archive at startup is on the canvas before
\* the loop receives its first tick or command, although the timer and the
\* reader already send while the archive is read; so the first render of a
\* restarted process shows every archived cube.
C11_ReplayBeforeFirstEvent ==
    /\ loop = "start" => received = 0 /\ renders = 0 /\ canvas = <<>>
    /\ received > 0 => ArchivedOn(canvas)
    /\ renders > 0 => ArchivedOn(v)

\* C11 witness: the first render of a process that found cubes in its
\* archive, whose replay ended after the timer had sent its first tick.
C11_Witness ==
    /\ archive0 # <<>>
    /\ renders = 1
    /\ outcome = "pending"
    /\ next_expected_frame > 0
    /\ render_tick > 1

\* The archive record of a scene node: the coordinate its translation came
\* from and its colour.
RecordOfNode(node) ==
    <<(frame_side_len - node.translation[1]) \div 2,
      (frame_side_len - node.translation[2]) \div 2,
      (frame_side_len - node.translation[3]) \div 2,
      node.color[1], node.color[2], node.color[3]>>

\* How often x occurs in a sequence.
Count(seq, x) == Cardinality({i \in 1..Len(seq) : seq[i] = x})

\* The main task is in rx.recv(), between two commands.
Waiting == Alive /\ loop = "recv"

\* C17: whenever the event loop waits for its next command, the cubes on the
\* canvas and the records in the archive are the same multiset (nothing else
\* writes the archive).
C17_CanvasMatchesArchive ==
    Waiting =>
        LET onCanvas == [i \in 1..Len(canvas) |-> RecordOfNode(canvas[i])]
        IN  \A row \in {archive[i] : i \in 1..Len(archive)}
                        \cup {onCanvas[i] : i \in 1..Len(onCanvas)} :
                Count(onCanvas, row) = Count(archive, row)

\* C17 witness: the loop waits with archived cubes replayed and the same cube
\* added twice by chat commands.
C17_Witness ==
    /\ Waiting
    /\ archive0 # <<>>
    /\ Len(added) = 2
    /\ added[1] = added[2]
    /\ received = Len(chan)

\* C18: the start times of two consecutive render attempts are at least one
\* frame time apart, however the earlier attempt ended.
C18_AttemptsOneFrameApart ==
    [][(renders >= 1 /\ renders' = renders + 1)
          => attempt_time' >= attempt_time + frame_time]_vars

\* C20: the deadline never decreases: an AddCube command and a skipped tick
\* leave it as it is, and every render attempt that ends without a panic
\* sets it to a greater value.
C20_DeadlineOnlyGrows ==
    [][/\ next_expected_frame' >= next_expected_frame
       /\ ((loop = "recv" /\ loop' = "recv" /\ received' = received + 1)
             => next_expected_frame' = next_expected_frame)
       /\ ((loop = "rendering"
               /\ outcome' \in {"ok", "from_raw_none", "save_err"})
             => next_expected_frame' > next_expected_frame)]_vars

\* The positions that bound the tokens of a string: before its first
\* character, each single space, after its last character.
Separators(s) == {0} \cup {i \in 1..Len(s) : s[i] = " "} \cup {Len(s) + 1}

\* The single-space-separated tokens of a string, as a set.
TokensOf(s) ==
    {SubSeq(s, p[1] + 1, p[2] - 1) :
        p \in {q \in Separators(s) \X Separators(s) :
                  /\ q[1] < q[2]
                  /\ ~\E c \in Separators(s) : q[1] < c /\ c < q[2]}}

\* The number of single-space-separated tokens of a string.
TokenCount(s) == Cardinality({i \in 1..Len(s) : s[i] = " "}) + 1

\* A decimal integer without sign or with '+': what the bot's parser takes.
IsUnsigned(tok) ==
    LET ds == IF tok # <<>> /\ tok[1] = "+" THEN SubSeq(tok, 2, Len(tok)) ELSE tok
    IN  ds # <<>> /\ \A i \in 1..Len(ds) : ds[i] \in Digits

\* A decimal integer with or without sign: what populate_from_csv's parser
\* takes.
IsSigned(tok) ==
    LET ds == IF tok # <<>> /\ tok[1] \in {"+", "-"}
              THEN SubSeq(tok, 2, Len(tok)) ELSE tok
    IN  ds # <<>> /\ \A i \in 1..Len(ds) : ds[i] \in Digits

\* A chat text the reader must drop: it does not parse, or a coordinate is
\* not below the bound.
Rejected(s, size) ==
    LET toks == Split(s)
    IN  \/ Len(toks) # 6
        \/ \E i \in 1..6 : ~IsUnsigned(toks[i])
        \/ \E i \in 4..6 : ParseU32(toks[i]).val > 255
        \/ \E i \in 1..3 : ParseU32(toks[i]).val >= size

\* C12: a chat message that fails parsing or has x, y or z at or above
\* cube_size is dropped: the reader sends nothing, canvas and archive stay
\* as they are, and the reader goes on to the next message.
C12_RejectedMessageDropped ==
    [][(delivered' = delivered + 1 /\ Rejected(text', cube_size))
          => /\ chan' = chan
             /\ canvas' = canvas
             /\ archive' = archive
             /\ reader' = "running"
             /\ fatal' = fatal]_vars

\* C12 witness: after an accepted message the reader has dropped a message
\* that parses and has a coordinate equal to cube_size.
C12_Witness ==
    /\ delivered = 2
    /\ Len(chan) = 1
    /\ from_str(text).ok
    /\ Rejected(text, cube_size)

\* C13, as stated, of a text handed to the parser: a text whose number of tokens is not 6 fails with the
\* field-count error whatever its tokens are, and a text with a non-integer
\* token fails with the numeric-format error; in both parsers.
C13_ErrorByTokens ==
    /\ (delivered >= 1 /\ TokenCount(text) # 6)
          => /\ ~from_str(text).ok /\ from_str(text).err = "too many args"
             /\ ~from_str_csv(text).ok
             /\ from_str_csv(text).err = "too many args"
    /\ (delivered >= 1 /\ \E tok \in TokensOf(text) : ~IsSigned(tok))
          => /\ ~from_str(text).ok /\ from_str(text).err = "error parsing"
             /\ ~from_str_csv(text).ok
             /\ from_str_csv(text).err = "error parsing"

\* C13, amended, of a text handed to the parser: a text whose tokens all parse as integers of the parser's
\* type (u32 in the bot, i32 in populate_from_csv) and whose number of tokens
\* is not 6 fails with the field-count error, and a text with a token that
\* does not parse fails with the numeric-format error whatever the number
\* of its tokens.
C13_ErrorByTokensParsedFirst ==
    delivered >= 1 =>
        /\ ((\A tok \in TokensOf(text) : IsUnsigned(tok))
               /\ TokenCount(text) # 6)
              => ~from_str(text).ok /\ from_str(text).err = "too many args"
        /\ (\E tok \in TokensOf(text) : ~IsUnsigned(tok))
              => ~from_str(text).ok /\ from_str(text).err = "error parsing"
        /\ ((\A tok \in TokensOf(text) : IsSigned(tok))
               /\ TokenCount(text) # 6)
              => /\ ~from_str_csv(text).ok
                 /\ from_str_csv(text).err = "too many args"
        /\ (\E tok \in TokensOf(text) : ~IsSigned(tok))
              => /\ ~from_str_csv(text).ok
                 /\ from_str_csv(text).err = "error parsing"

\* C13 witness: the reader was handed a text of three tokens, one of them
\* not an integer, and the parser answers with the numeric-format error.
C13_Witness ==
    /\ delivered >= 1
    /\ TokenCount(text) = 3
    /\ \E tok \in TokensOf(text) : ~IsSigned(tok)
    /\ ~from_str(text).ok
    /\ from_str(text).err = "error parsing"

\* C14, of a text handed to the parser: a text of six integer tokens with r, g, b <= 255 and coordinates
\* below the bound is accepted, and the command's x, y, z, r, g, b are the
\* integers written in the text, none altered, truncated or wrapped.
C14_AcceptedFieldsAsWritten ==
    LET toks == Split(text)
        written(i) == ParseI32(toks[i]).val
        asWritten(c) ==
            /\ c.ok
            /\ <<c.x, c.y, c.z, c.r, c.g, c.b>> = [i \in 1..6 |-> written(i)]
    IN  (/\ delivered >= 1
         /\ Len(toks) = 6
         /\ \A i \in 1..6 : IsSigned(toks[i])
         /\ \A i \in 4..6 : written(i) <= 255
         /\ \A i \in 1..3 : written(i) < cube_size)
          => /\ (\A i \in 1..6 : IsUnsigned(toks[i]))
                   => /\ asWritten(from_str(text))
                      /\ ~OutOfCube(from_str(text), cube_size)
             /\ asWritten(from_str_csv(text))

\* C15: on an archive file that started empty, get_cubes returns the cubes of
\* the successful add_cube calls, one per call, in order and field for
\* field; so does a CubeArchive newly made on the same file; add_cube and
\* get_cubes need no init call before them.
C15_ArchiveRoundTrip ==
    /\ [](archive0 = <<>> => ArchiveGetCubes(archive) = added)
    /\ [][(archive0 = <<>> /\ loop = "start" /\ loop' = "recv")
             => cubes' = added]_vars

\* C15 witness: populate_from_csv has added two different cubes, each
\* through a new CubeArchive, and the bot's new CubeArchive has read them.
C15_Witness ==
    /\ archive0 = <<>>
    /\ loop = "recv"
    /\ received = 0
    /\ Len(cubes) = 2
    /\ cubes[1] # cubes[2]
    /\ cubes = added

\* C16: an overflow while the new deadline is computed (frames_lost + 1, the
\* product with the frame time, or the sum with the attempt time) always
\* ends the process; the loop never goes on with a deadline made from a
\* clamped, truncated or wrapped number.
C16_OverflowIsFatal ==
    wide.done =>
        \/ wide.panicked /\ fatal # "none"
        \/ wide.factor = WideSucc(wide.frames_lost)

\* The most scene nodes a canvas of the model holds.
MaxNodes == 2 + MaxMessages

\* C19: if renders and archive writes end and nothing panics, every command
\* applied to the canvas is followed by a render attempt whose capture holds
\* its cube, also when the chat stream has closed and the reader task has
\* ended, because the timer task keeps sending ticks.
C19_AppliedCommandIsRendered ==
    \A n \in 1..MaxNodes :
        (Len(canvas) >= n /\ n > Len(cubes) /\ loop # "start")
            ~> (Len(v) >= n \/ ~Alive)

\* C19 witness: the chat stream has closed, the channel is empty, and a
\* command's cube is on the canvas that no render has captured yet.
C19_Witness ==
    /\ Alive
    /\ reader = "ended"
    /\ loop = "recv"
    /\ chan = <<>>
    /\ Len(canvas) > Len(cubes)
    /\ Len(v) < Len(canvas)

====
